---- MODULE Spec2Model ----
(***************************************************************************)
(* Model of include/fibre/introspection.hpp: the PropertyInfo tables, the  *)
(* TypeInfo lookup, the Introspectable path traversal and the string       *)
(* access of the FibrePropertyTypeInfo adapters.                           *)
(*                                                                         *)
(* A C string is a sequence of one-character strings; NUL is the           *)
(* terminator.  Path bytes are addressed 0-based as in the source.         *)
(***************************************************************************)
EXTENDS Integers, Sequences, FiniteSets, TLC

VARIABLES
    h,          \* the handle the caller holds (the receiver of the next call)
    props,      \* the application's property values, by payload
    pc,         \* the caller's position: "idle", "got" or "str"
    recv,       \* the receiver as it was when the last call was made
    path,       \* the path buffer of the last get_child call
    length,     \* the length argument of the last get_child call
    result,     \* the handle the last get_child call returned
    trace,      \* what the last get_child call did (getters, lookups, reads)
    sarg,       \* the arguments of the last get_string / set_string call
    sres        \* the outcome of the last get_string / set_string call

vars == <<h, props, pc, recv, path, length, result, trace, sarg, sres>>

----------------------------------------------------------------------------
(* Bounds *)

\* size of the path buffer handed to get_child
BufLen == 4

\* capacity of the largest output buffer handed to get_string
MaxCap == 3

----------------------------------------------------------------------------
(* Characters and strings *)

NUL == "NUL"

PathChars == {"a", "b", ".", NUL}

Min(x, y) == IF x < y THEN x ELSE y

\* the byte at 0-based index i of a buffer; OutOfBuffer stands for memory
\* that is not part of the buffer
OutOfBuffer == "OOB"

At(buf, i) == IF i < Len(buf) THEN buf[i + 1] ELSE OutOfBuffer

\* the byte at 0-based index i of a NUL-terminated stored string
CStrAt(s, i) == IF i < Len(s) THEN s[i + 1] ELSE NUL

----------------------------------------------------------------------------
(* The static descriptor tables *)

NullTI == "nullptr"

\* The descriptors of the modelled application are two structural nodes,
\* "RootTI" and "NodeTI", and the adapter singletons of three leaf value
\* types, "Int32RW", "Int32RO" and "EnumRW".

\* struct PropertyInfo { name; getter; type_info; }
PropertyInfo(name, getter, type_info) ==
    [name |-> name, getter |-> getter, type_info |-> type_info]

\* TypeInfo::property_table_ (property_table_length_ is its Len)
property_table(ti) ==
    CASE ti = "RootTI" ->
            << PropertyInfo(<<"a", "b">>, "get_ab", "NodeTI"),
               PropertyInfo(<<"a">>,      "get_a",  "Int32RW"),
               PropertyInfo(<<"b">>,      "get_b",  "Int32RO") >>
      [] ti = "NodeTI" ->
            << PropertyInfo(<<"a", "b">>, "get_ab", "EnumRW"),
               PropertyInfo(<<"b">>,      "get_b",  "Int32RW") >>
      [] OTHER -> << >>

\* which string hooks the descriptor's class overrides
Adapter(ti) ==
    CASE ti = "Int32RW" -> "readwrite"
      [] ti = "EnumRW"  -> "readwrite"
      [] ti = "Int32RO" -> "readonly"
      [] OTHER          -> "base"

\* whether the adapter's value type T is an enum
IsEnum(ti) == ti = "EnumRW"

\* Introspectable { storage_; type_info_; }
Introspectable(storage, type_info) ==
    [storage_ |-> storage, type_info_ |-> type_info]

\* TypeInfo::make_introspectable for the application's root object
make_introspectable(obj, type_info) == Introspectable(<<obj>>, type_info)

\* (*prop_info->getter)(current): re-points the payload at the member
ApplyGetter(getter, current) ==
    [current EXCEPT !.storage_ = Append(@, getter)]

----------------------------------------------------------------------------
(* TypeInfo::get_property_info *)

\* std::find(first, last, ch) over the 0-based range [first, last) of buf
RECURSIVE find(_, _, _, _)
find(buf, first, last, ch) ==
    IF first >= last THEN last
    ELSE IF At(buf, first) = ch THEN first
    ELSE find(buf, first + 1, last, ch)

\* the indices std::find dereferences on that range
findReads(buf, first, last, ch) ==
    LET r == find(buf, first, last, ch)
    IN  {i \in first..(last - 1) : i <= r}

\* strncmp(buf + begin, name, n), comparing from offset i on: whether the
\* result is 0, and how many bytes of buf were compared
RECURSIVE strncmp_from(_, _, _, _, _)
strncmp_from(buf, begin, name, n, i) ==
    IF i >= n THEN [zero |-> TRUE, compared |-> i]
    ELSE LET c1 == At(buf, begin + i)
             c2 == CStrAt(name, i)
         IN  IF c1 # c2 THEN [zero |-> FALSE, compared |-> i + 1]
             ELSE IF c1 = NUL THEN [zero |-> TRUE, compared |-> i + 1]
             ELSE strncmp_from(buf, begin, name, n, i + 1)

strncmp(buf, begin, name, n) == strncmp_from(buf, begin, name, n, 0)

\* The scan of get_property_info from table index k on.  prop is the index
\* of the entry returned (0 is nullptr), reads the path indices compared.
RECURSIVE scan_table(_, _, _, _, _, _)
scan_table(table, buf, begin, n, k, reads) ==
    IF k > Len(table) THEN [prop |-> 0, reads |-> reads]
    ELSE LET c  == strncmp(buf, begin, table[k].name, n)
             rd == reads \cup {begin + j : j \in 0..(c.compared - 1)}
         IN  IF c.zero THEN [prop |-> k, reads |-> rd]
             ELSE scan_table(table, buf, begin, n, k + 1, rd)

get_property_info(ti, buf, begin, n) ==
    scan_table(property_table(ti), buf, begin, n, 1, {})

----------------------------------------------------------------------------
(* Introspectable::get_child *)

\* The loop of get_child.  st carries the receiver (self), the working copy
\* (current), the cursor (begin) and a log of what the call has done.
RECURSIVE get_child_loop(_, _, _)
get_child_loop(st, buf, end) ==
    IF ~((st.begin < end) /\ st.current.type_info_ # NullTI) THEN st
    ELSE
      LET end_of_token == find(buf, st.begin, end, ".")
          ti        == st.current.type_info_
          found     == get_property_info(ti, buf, st.begin,
                                         end_of_token - st.begin)
          prop_info == property_table(ti)[found.prop]
          lookup    == [type_info |-> ti, begin |-> st.begin,
                        length |-> end_of_token - st.begin,
                        prop |-> found.prop]
          reads     == st.reads
                         \cup findReads(buf, st.begin, end, ".")
                         \cup found.reads
          next      == Min(end, end_of_token + 1)
      IN  IF found.prop # 0
          THEN get_child_loop(
                 [st EXCEPT
                    !.current = [ApplyGetter(prop_info.getter, st.current)
                                   EXCEPT !.type_info_ = prop_info.type_info],
                    !.begin   = next,
                    !.getters = Append(@, <<ti, prop_info.getter>>),
                    !.lookups = Append(@, lookup),
                    !.reads   = reads],
                 buf, end)
          ELSE get_child_loop(
                 [st EXCEPT
                    !.current = [st.current EXCEPT !.type_info_ = NullTI],
                    !.begin   = next,
                    !.lookups = Append(@, lookup),
                    !.reads   = reads],
                 buf, end)

\* a traversal that does not stop at the terminator
path_end_ignoring_nul(buf, len) == len

\* a traversal that scans to the terminator whatever the length bound
path_end_ignoring_length(buf, len) == find(buf, 0, Len(buf), NUL)

\* the logical end of the path: std::find(path, path + length, '\0')
path_end(buf, len) == find(buf, 0, len, NUL)

\* a traversal that works on the receiver instead of a copy
get_child_in_place(self, buf, len) ==
    LET end == path_end(buf, len)
        st  == get_child_loop([self    |-> self,
                               current |-> self,
                               begin   |-> 0,
                               getters |-> << >>,
                               lookups |-> << >>,
                               reads   |-> findReads(buf, 0, len, NUL)],
                              buf, end)
    IN  [st EXCEPT !.self = st.current]

get_child(self, buf, len) ==
    LET end == path_end(buf, len)
    IN  get_child_loop([self    |-> self,
                        current |-> self,
                        begin   |-> 0,
                        getters |-> << >>,
                        lookups |-> << >>,
                        reads   |-> findReads(buf, 0, len, NUL)],
                       buf, end)

\* Introspectable::is_valid
is_valid(obj) == obj.type_info_ # NullTI

----------------------------------------------------------------------------
(* The external conversion routines and the Property wrapper *)

Digits == <<"0", "1", "2", "3", "4", "5", "6", "7", "8", "9">>

IsDigit(c) == \E d \in 1..10 : Digits[d] = c

DigitValue(c) == (CHOOSE d \in 1..10 : Digits[d] = c) - 1

RECURSIVE Decimal(_)
Decimal(n) ==
    IF n < 10 THEN <<Digits[n + 1]>>
    ELSE Append(Decimal(n \div 10), Digits[(n % 10) + 1])

\* to_string(value, buffer, length, 0): fails when the text and its
\* terminator do not fit into length bytes
to_string(value, cap) ==
    LET text == IF value < 0 THEN <<"-">> \o Decimal(0 - value)
                ELSE Decimal(value)
    IN  IF Len(text) + 1 <= cap THEN [ok |-> TRUE, buffer |-> text]
        ELSE [ok |-> FALSE, buffer |-> << >>]

RECURSIVE ParseDigits(_, _)
ParseDigits(text, acc) ==
    IF text = << >> THEN acc
    ELSE ParseDigits(Tail(text), acc * 10 + DigitValue(Head(text)))

\* from_string(buffer, length, &value, 0): an optional sign and one or more
\* decimal digits, read from at most length bytes
from_string(buffer, len) ==
    LET text == SubSeq(buffer, 1, find(buffer, 0, Min(len, Len(buffer)), NUL))
        neg  == text # << >> /\ Head(text) = "-"
        body == IF neg THEN Tail(text) ELSE text
    IN  IF body # << >> /\ \A i \in 1..Len(body) : IsDigit(body[i])
        THEN [ok |-> TRUE,
              value |-> IF neg THEN 0 - ParseDigits(body, 0)
                        ELSE ParseDigits(body, 0)]
        ELSE [ok |-> FALSE, value |-> 0]

\* static_cast<T>(value) from the underlying type: an enum value is kept
\* apart from the integer it is made of
to_T(ti, value) == IF IsEnum(ti) THEN [enum |-> value] ELSE value

\* static_cast<maybe_underlying_type_t<T>>(v)
to_underlying(ti, v) == IF IsEnum(ti) THEN v.enum ELSE v

\* Property<T>::read through the payload of a handle
read(obj, values) == values[obj.storage_]

\* Property<T>::exchange through the payload of a handle
exchange(obj, values, v) == [values EXCEPT ![obj.storage_] = v]

----------------------------------------------------------------------------
(* String access *)

\* the outcome of a hook: its return value, the property values after it,
\* the output buffer and the values handed to exchange
Outcome(ret, values, buffer, exchanged) ==
    [ret |-> ret, values |-> values, buffer |-> buffer,
     exchanged |-> exchanged, hooks |-> << >>]

\* FibrePropertyTypeInfo<Property<T>>::get_string (both adapters)
FibrePropertyTypeInfo_get_string(ti, obj, cap, values) ==
    LET r == to_string(to_underlying(ti, read(obj, values)), cap)
    IN  Outcome(r.ok, values, r.buffer, << >>)

\* a set_string that stores before it looks at the parse result
FibrePropertyTypeInfo_set_string_store_first(ti, obj, buffer, len, values) ==
    LET r == from_string(buffer, len)
    IN  Outcome(r.ok, exchange(obj, values, to_T(ti, r.value)),
                << >>, <<to_T(ti, r.value)>>)

\* a set_string that parses and never stores
FibrePropertyTypeInfo_set_string_no_store(ti, obj, buffer, len, values) ==
    LET r == from_string(buffer, len)
    IN  Outcome(r.ok, values, << >>, << >>)

\* FibrePropertyTypeInfo<Property<T>>::set_string (read-write adapter)
FibrePropertyTypeInfo_set_string(ti, obj, buffer, len, values) ==
    LET r == from_string(buffer, len)
    IN  IF ~r.ok THEN Outcome(FALSE, values, << >>, << >>)
        ELSE Outcome(TRUE, exchange(obj, values, to_T(ti, r.value)),
                     << >>, <<to_T(ti, r.value)>>)

\* virtual TypeInfo::get_string, dispatched on the descriptor's class
TypeInfo_get_string(ti, obj, cap, values) ==
    IF Adapter(ti) \in {"readonly", "readwrite"}
    THEN FibrePropertyTypeInfo_get_string(ti, obj, cap, values)
    ELSE Outcome(FALSE, values, << >>, << >>)

\* a read-only adapter that overrides set_string as well
TypeInfo_set_string_readonly_writes(ti, obj, buffer, len, values) ==
    IF Adapter(ti) \in {"readonly", "readwrite"}
    THEN FibrePropertyTypeInfo_set_string(ti, obj, buffer, len, values)
    ELSE Outcome(FALSE, values, << >>, << >>)

\* virtual TypeInfo::set_string, dispatched on the descriptor's class
TypeInfo_set_string(ti, obj, buffer, len, values) ==
    IF Adapter(ti) = "readwrite"
    THEN FibrePropertyTypeInfo_set_string(ti, obj, buffer, len, values)
    ELSE Outcome(FALSE, values, << >>, << >>)

\* Introspectable::get_string
Introspectable_get_string(obj, cap, values) ==
    IF obj.type_info_ = NullTI THEN Outcome(FALSE, values, << >>, << >>)
    ELSE [TypeInfo_get_string(obj.type_info_, obj, cap, values)
            EXCEPT !.hooks = <<obj.type_info_>>]

\* Introspectable::set_string
Introspectable_set_string(obj, buffer, len, values) ==
    IF obj.type_info_ = NullTI THEN Outcome(FALSE, values, << >>, << >>)
    ELSE [TypeInfo_set_string(obj.type_info_, obj, buffer, len, values)
            EXCEPT !.hooks = <<obj.type_info_>>]

----------------------------------------------------------------------------
(* The caller *)

\* every content of the path buffer
Paths == [1..BufLen -> PathChars]

\* the values the caller writes
Values == {-1, 0, 12}

\* the buffers the caller hands to set_string: the text of every value,
\* and texts that are no number
StringInputs ==
    {to_string(v, Len(to_string(v, 8).buffer) + 1).buffer : v \in Values}
        \cup {<< >>, <<"x">>, <<"1", "x">>, <<"-">>, <<"1", NUL, "2">>}

NoHandle == Introspectable(<< >>, NullTI)

NoTrace == [self |-> NoHandle, current |-> NoHandle, begin |-> 0,
            getters |-> << >>, lookups |-> << >>, reads |-> {}]

NoArg == [op |-> "none", buffer |-> << >>, length |-> 0, before |-> << >>]

NoOutcome == Outcome(FALSE, << >>, << >>, << >>)

\* the application object: its properties by payload
InitProps ==
    (<<"root", "get_a">>            :> 7)
 @@ (<<"root", "get_b">>            :> 12)
 @@ (<<"root", "get_ab", "get_ab">> :> [enum |-> 1])
 @@ (<<"root", "get_ab", "get_b">>  :> 0)

Init ==
    /\ h = make_introspectable("root", "RootTI")
    /\ props = InitProps
    /\ pc = "idle"
    /\ recv = NoHandle
    /\ path = << >>
    /\ length = 0
    /\ result = NoHandle
    /\ trace = NoTrace
    /\ sarg = NoArg
    /\ sres = NoOutcome

\* the caller builds the handle of the root object
MakeRoot ==
    /\ pc = "idle"
    /\ h' = make_introspectable("root", "RootTI")
    /\ UNCHANGED <<props, pc, recv, path, length, result, trace, sarg, sres>>

\* the caller calls h.get_child(p, n)
GetChild ==
    /\ pc = "idle"
    /\ \E p \in Paths, n \in 0..BufLen :
         LET st == get_child(h, p, n)
         IN  /\ path' = p
             /\ length' = n
             /\ h' = st.self
             /\ recv' = h
             /\ result' = st.current
             /\ trace' = st
    /\ pc' = "got"
    /\ UNCHANGED <<props, sarg, sres>>

\* the caller goes on with the returned handle
Descend ==
    /\ pc = "got"
    /\ h' = result
    /\ pc' = "idle"
    /\ recv' = NoHandle
    /\ path' = << >>
    /\ length' = 0
    /\ result' = NoHandle
    /\ trace' = NoTrace
    /\ UNCHANGED <<props, sarg, sres>>

\* the caller drops what the last call returned
Drop ==
    /\ pc \in {"got", "str"}
    /\ pc' = "idle"
    /\ recv' = NoHandle
    /\ path' = << >>
    /\ length' = 0
    /\ result' = NoHandle
    /\ trace' = NoTrace
    /\ sarg' = NoArg
    /\ sres' = NoOutcome
    /\ UNCHANGED <<h, props>>

\* the caller calls h.set_string(buffer, len)
SetString ==
    /\ pc = "idle"
    /\ \E buffer \in StringInputs : \E len \in 0..Len(buffer) :
         LET r == Introspectable_set_string(h, buffer, len, props)
         IN  /\ sarg' = [op |-> "set_string", buffer |-> buffer,
                         length |-> len, before |-> props]
             /\ sres' = r
             /\ props' = r.values
    /\ recv' = h
    /\ pc' = "str"
    /\ UNCHANGED <<h, path, length, result, trace>>

\* the caller calls h.get_string(buffer, cap)
GetString ==
    /\ pc = "idle"
    /\ \E cap \in 0..MaxCap :
         LET r == Introspectable_get_string(h, cap, props)
         IN  /\ sarg' = [op |-> "get_string", buffer |-> << >>,
                         length |-> cap, before |-> props]
             /\ sres' = r
             /\ props' = r.values
    /\ recv' = h
    /\ pc' = "str"
    /\ UNCHANGED <<h, path, length, result, trace>>

Next ==
    \/ MakeRoot
    \/ GetChild
    \/ Descend
    \/ Drop
    \/ SetString
    \/ GetString

Spec == Init /\ [][Next]_vars

----------------------------------------------------------------------------
(* What the properties speak about *)

\* the index of the first NUL of a buffer, or its size
FirstNul(buf) ==
    IF \E i \in 1..Len(buf) : buf[i] = NUL
    THEN (CHOOSE i \in 1..Len(buf) :
            buf[i] = NUL /\ \A j \in 1..(i - 1) : buf[j] # NUL) - 1
    ELSE Len(buf)

\* the logical end of the last get_child call's path
LogicalEnd == Min(length, FirstNul(path))

\* the text of the last get_child call's path
Text == SubSeq(path, 1, LogicalEnd)

\* the '.'-separated tokens of a text; a text without '.' is one token
RECURSIVE Tokens(_)
Tokens(text) ==
    IF \E i \in 1..Len(text) : text[i] = "."
    THEN LET d == CHOOSE i \in 1..Len(text) :
                    text[i] = "." /\ \A j \in 1..(i - 1) : text[j] # "."
         IN  <<SubSeq(text, 1, d - 1)>>
                \o Tokens(SubSeq(text, d + 1, Len(text)))
    ELSE <<text>>

\* the first entry of ti's table whose stored name is the token, 0 if none
ExactEntry(ti, token) ==
    LET table == property_table(ti)
    IN  IF \E k \in 1..Len(table) : table[k].name = token
        THEN CHOOSE k \in 1..Len(table) :
               table[k].name = token
                 /\ \A j \in 1..(k - 1) : table[j].name # token
        ELSE 0

\* how many leading tokens are registered, each at the level the ones before
\* it lead to
RECURSIVE RegisteredPrefix(_, _)
RegisteredPrefix(ti, tokens) ==
    IF tokens = << >> \/ ExactEntry(ti, Head(tokens)) = 0 THEN 0
    ELSE 1 + RegisteredPrefix(
               property_table(ti)[ExactEntry(ti, Head(tokens))].type_info,
               Tail(tokens))

\* the entries the registered tokens name, as <<descriptor, entry>> pairs
RECURSIVE RegisteredEntries(_, _)
RegisteredEntries(ti, tokens) ==
    IF tokens = << >> \/ ExactEntry(ti, Head(tokens)) = 0 THEN << >>
    ELSE LET e == property_table(ti)[ExactEntry(ti, Head(tokens))]
         IN  <<[type_info |-> ti, entry |-> e]>>
                \o RegisteredEntries(e.type_info, Tail(tokens))

\* the last get_child call was made on a path of registered names only
AllRegistered ==
    /\ pc = "got"
    /\ Text # << >>
    /\ RegisteredPrefix(recv.type_info_, Tokens(Text)) = Len(Tokens(Text))

\* the bytes of the token a lookup was handed
LookupToken(l) == SubSeq(path, l.begin + 1, l.begin + l.length)

\* C1: a non-empty path of names that are each registered at the level
\* reached so far yields a valid handle whose TypeInfo is the one registered
\* in the entry of the last name, the getter of each named entry having been
\* applied once, in path order.
C1_RegisteredPathReachesLeaf ==
    AllRegistered =>
        LET entries == RegisteredEntries(recv.type_info_, Tokens(Text))
        IN  /\ is_valid(result)
            /\ result.type_info_ = entries[Len(entries)].entry.type_info
            /\ trace.getters =
                 [k \in 1..Len(entries) |->
                    <<entries[k].type_info, entries[k].entry.getter>>]

\* C2: when segment k is not registered at the level reached by the segments
\* before it, the result is invalid whatever follows, and no lookup is made
\* and no getter invoked for a segment after k.
C2_UnregisteredSegmentInvalidates ==
    (pc = "got" /\ Text # << >>
       /\ RegisteredPrefix(recv.type_info_, Tokens(Text)) < Len(Tokens(Text)))
    => LET k == RegisteredPrefix(recv.type_info_, Tokens(Text))
       IN  /\ ~is_valid(result)
           /\ Len(trace.lookups) <= k + 1
           /\ Len(trace.getters) <= k

\* C3: every lookup returns the first entry whose stored name is the token,
\* same length and same bytes, and none when no stored name is.
C3_LookupIsLengthExact ==
    pc = "got" =>
        \A i \in 1..Len(trace.lookups) :
            LET l == trace.lookups[i]
            IN  l.prop = ExactEntry(l.type_info, LookupToken(l))

\* C4: no table has an empty-named entry, and a path with an empty token
\* (a trailing '.', or two separators in a row) yields an invalid handle.
C4_EmptyTokenInvalidates ==
    (pc = "got" /\ Text # << >>
       /\ \E i \in 1..Len(Tokens(Text)) : Tokens(Text)[i] = << >>)
    => ~is_valid(result)

\* C5: an empty path (length 0, or a first byte NUL) returns a handle equal
\* to the receiver in payload and TypeInfo, for a valid and for an invalid
\* receiver, without any lookup and without any getter.
C5_EmptyPathReturnsReceiver ==
    (pc = "got" /\ (length = 0 \/ path[1] = NUL))
    => /\ result = recv
       /\ trace.lookups = << >>
       /\ trace.getters = << >>

C5_Witness ==
    /\ pc = "got"
    /\ length > 0
    /\ path[1] = NUL
    /\ path[2] = "b"
    /\ is_valid(recv)
    /\ result = recv

\* The last call's path with every byte behind the logical end overwritten:
\* all buffers that agree before the logical end and have the same logical
\* end share it.
Overwritten ==
    LET keep == IF LogicalEnd < length THEN LogicalEnd + 1 ELSE LogicalEnd
    IN  [i \in 1..BufLen |-> IF i <= keep THEN path[i] ELSE "."]

\* C6: get_child examines no byte at an index >= length nor after the first
\* NUL, every token handed to lookup lies before the logical end
\* min(length, index of first NUL), and the bytes behind the logical end
\* have no effect on the handle returned nor on the getters invoked.
C6_LengthAndTerminatorHonoured ==
    pc = "got" =>
        /\ \A i \in trace.reads : i < length /\ i <= LogicalEnd
        /\ \A i \in 1..Len(trace.lookups) :
              trace.lookups[i].begin + trace.lookups[i].length <= LogicalEnd
        /\ LET other == get_child(recv, Overwritten, length)
           IN  /\ other.current = result
               /\ other.getters = trace.getters

C6_Witness ==
    /\ pc = "got"
    /\ length = 2
    /\ path = <<"b", NUL, "a", "b">>
    /\ recv = make_introspectable("root", "RootTI")
    /\ result.type_info_ = "Int32RO"
    /\ trace.reads = {0, 1}

\* the last call was a set_string
WasSetString == pc = "str" /\ sarg.op = "set_string"

\* C7: set_string returns false and changes no property value on a handle
\* that is no read-write leaf: on an invalid handle, where no hook runs, on
\* a structural node and on a read-only leaf.
C7_SetStringRefused ==
    (WasSetString /\ Adapter(recv.type_info_) # "readwrite")
    => /\ sres.ret = FALSE
       /\ props = sarg.before
       /\ sres.exchanged = << >>
       /\ (~is_valid(recv) => sres.hooks = << >>)

C7_Witness ==
    /\ WasSetString
    /\ recv.type_info_ = "Int32RO"
    /\ sarg.buffer = <<"-", "1">>
    /\ sarg.length = 2
    /\ sres.ret = FALSE
    /\ props[recv.storage_] = 12

\* C8: set_string on a read-write leaf returns false without a call of
\* exchange when from_string fails, and otherwise updates the property by
\* exactly one exchange with the parsed value and returns true.
C8_SetStringParsesThenStores ==
    (WasSetString /\ Adapter(recv.type_info_) = "readwrite")
    => LET r == from_string(sarg.buffer, sarg.length)
           v == to_T(recv.type_info_, r.value)
       IN  IF r.ok
           THEN /\ sres.ret = TRUE
                /\ sres.exchanged = <<v>>
                /\ props = [sarg.before EXCEPT ![recv.storage_] = v]
           ELSE /\ sres.ret = FALSE
                /\ sres.exchanged = << >>
                /\ props = sarg.before

C8_Witness ==
    /\ WasSetString
    /\ recv.type_info_ = "Int32RW"
    /\ sarg.buffer = <<"1", "x">>
    /\ sarg.length = 2
    /\ sres.ret = FALSE
    /\ sarg.before[recv.storage_] = 12
    /\ props[recv.storage_] = 12

\* the text of a value, as to_string writes it into a buffer that is large
\* enough
TextOf(v) == to_string(v, MaxCap + 8).buffer

\* C9: on a read-write leaf, int32 or enum, set_string of the text of a
\* value v returns true, and a get_string that follows yields that text.
C9_RoundTrip ==
    (WasSetString /\ Adapter(recv.type_info_) = "readwrite")
    => \A v \in Values :
         (sarg.buffer = TextOf(v) /\ sarg.length = Len(sarg.buffer))
         => /\ sres.ret = TRUE
            /\ \A cap \in 0..MaxCap :
                 to_string(v, cap).ok
                 => LET g == Introspectable_get_string(h, cap, props)
                    IN  g.ret = TRUE /\ g.buffer = TextOf(v)

C9_Witness ==
    /\ WasSetString
    /\ recv.type_info_ = "EnumRW"
    /\ sarg.buffer = <<"-", "1">>
    /\ sarg.length = 2
    /\ sarg.before[recv.storage_] = [enum |-> 12]
    /\ props[recv.storage_] = [enum |-> -1]
    /\ Introspectable_get_string(h, 3, props).buffer = <<"-", "1">>

\* a text of one or more non-empty tokens without NUL
Wellformed(text) ==
    /\ \A i \in 1..Len(text) : text[i] # NUL
    /\ \A i \in 1..Len(Tokens(text)) : Tokens(text)[i] # << >>

\* the ways to write the last call's path as p1 + "." + p2
Splits ==
    {d \in 1..length :
        /\ path[d] = "."
        /\ Wellformed(SubSeq(path, 1, d - 1))
        /\ Wellformed(SubSeq(path, d + 1, length))}

\* C10: get_child(p1 + "." + p2) is get_child(p1).get_child(p2) in validity,
\* TypeInfo and payload, with the same getters in the same order, and
\* get_child leaves its receiver as it was.
C10_TraversalComposes ==
    pc = "got" =>
        /\ h = recv
        /\ \A d \in Splits :
              LET p1 == SubSeq(path, 1, d - 1)
                  p2 == SubSeq(path, d + 1, length)
                  c1 == get_child(recv, p1, Len(p1))
                  c2 == get_child(c1.current, p2, Len(p2))
              IN  /\ result = c2.current
                  /\ is_valid(result) = is_valid(c2.current)
                  /\ trace.getters = c1.getters \o c2.getters

C10_Witness ==
    /\ pc = "got"
    /\ length = 4
    /\ path = <<"a", "b", ".", "b">>
    /\ Splits = {3}
    /\ recv = make_introspectable("root", "RootTI")
    /\ h = recv
    /\ result = Introspectable(<<"root", "get_ab", "get_b">>, "Int32RW")
    /\ Len(trace.getters) = 2

====
